---- MODULE Spec2Model ----
(***************************************************************************)
(* The lock-free skip list of src/src/internal/sync/mod.rs as a state      *)
(* machine.  Every action is one access to shared memory (an atomic load,  *)
(* store, CAS or fetch_add on a node field, on len or on max_height)       *)
(* together with the thread-local computation that follows it.             *)
(*                                                                         *)
(* NodeRef::from_maybe_tagged (load, protect, re-load until equal) is one  *)
(* step placed at its last validating load: the hazard is published before *)
(* that load, so a free after it is blocked and a free before it is an     *)
(* earlier step of the reclaiming thread.                                  *)
(*                                                                         *)
(* A read or write of a freed node is undefined behaviour.  The step       *)
(* either traps (pc = "trap") or goes on with the bytes last stored in the *)
(* block; `uaf` records that it happened.                                  *)
(***************************************************************************)
EXTENDS Integers, Sequences, FiniteSets, TLC

\* ------------------------------------------------------------------ bounds
HEIGHT == 2         \* tower height of the model (the program uses 1 << 5)
MaxNodes == 5       \* nodes one run may allocate
MaxSeqOps == 3      \* length of the single-threaded programs
MaxPqOps == 3       \* length of the single-threaded queue programs
MaxHeapOps == 4      \* calls of a single-threaded priority queue
MaxGenHeight == 3    \* heights the seeds of gen_height yield
MaxGenCalls == 2     \* gen_height calls per thread
MaxIntoOps == 3      \* calls made before into_iter consumes the list
MaxTraitOps == 3     \* inserts and removes made before front(), last(), get_first() or get_last()
MaxYield == 3       \* entries one iter() traversal may yield

head == 0
Null == -1
Nodes == 1..MaxNodes
Levels == 0..(HEIGHT - 1)
Threads == {1, 2}
Keys == {1, 2, 3, 4}
NoKey == 0

\* stand-in for the width of usize: len wraps modulo this value
USIZE_MOD == 2^30

VARIABLES
    heap,        \* heap[n]: the fields of node n (n = head: the sentinel)
    mem,         \* mem[n]: "unalloc" | "live" | "retired" | "freed"
    len,         \* state.len
    max_height,  \* state.max_height
    pc,          \* pc[t]: the statement thread t executes next
    lv,          \* lv[t]: the locals of thread t (NodeRefs are node ids)
    prog,        \* prog[t]: the operations thread t invokes, in order
    opi,         \* opi[t]: index of the operation t runs or invokes next
    nsetup,      \* thread 2 starts once thread 1 has finished nsetup operations
    res,         \* res[t]: the results of t's completed operations
    uaf          \* a freed node has been dereferenced

vars == <<heap, mem, len, max_height, pc, lv, prog, opi, nsetup, res, uaf>>

\* ------------------------------------------------------------- node memory
NullLevels == [l \in Levels |-> Null]
ZeroTags == [l \in Levels |-> 0]

NewNode(k, v, h) ==
    [key |-> k, val |-> v, height |-> h, removed |-> FALSE, refs |-> 0,
     ptr |-> NullLevels, tag |-> ZeroTags]

HeadNode == NewNode(NoKey, NoKey, HEIGHT)

IsFreed(n) == n \in Nodes /\ mem[n] = "freed"
AnyFreed(S) == \E n \in S : IsFreed(n)

\* MaybeTagged::compare_exchange(expected, new): both tags 0
CasOk(n, l, expected) == heap[n].ptr[l] = expected /\ heap[n].tag[l] = 0
CasSet(n, l, new) == [heap EXCEPT ![n].ptr[l] = new]

\* Node::set_removed succeeds: the flag was clear when its CAS ran
\* a set_removed that never reports an earlier remover
SetRemovedAlways(n) == n # Null
SetRemovedOk(n) == ~heap[n].removed

\* try_sub_ref: the count after the decrement (callers test it against 0)
SubRef(n) == [heap EXCEPT ![n].refs = @ - 1]
AddRef(n) == [heap EXCEPT ![n].refs = @ + 1]

\* ------------------------------------------------------------ thread locals
NoPrev == [l \in Levels |-> <<head, Null>>]

L0 ==
    [key |-> NoKey, closest |-> FALSE, fret |-> "idle", level |-> 0, i |-> 0,
     curr |-> Null, next |-> Null, new_next |-> Null, prev |-> NoPrev,
     target |-> Null, hold |-> {}, existing |-> <<>>, new_node |-> Null,
     start |-> 0, lprev |-> NoPrev, phase |-> "none", uret |-> "idle",
     unode |-> Null, uheight |-> 0, raw |-> Null, node |-> Null,
     nret |-> "idle", nloop |-> FALSE, ent |-> Null, out |-> <<>>,
     hgt |-> 0, mh |-> 0, won |-> {}, lost |-> {}, pre |-> {}, rm0 |-> {}]

PairNodes(p) == UNION {{p[l][1], p[l][2]} : l \in Levels}

\* the nodes thread t holds a hazard pointer on (one per live NodeRef / Entry)
Haz(t) ==
    ({lv[t].curr, lv[t].next, lv[t].new_next, lv[t].target, lv[t].new_node,
      lv[t].unode, lv[t].node, lv[t].ent}
       \cup PairNodes(lv[t].prev) \cup PairNodes(lv[t].lprev) \cup lv[t].hold)
    \ {Null, head}

Protected(n) == \E t \in Threads : n \in Haz(t)

\* Domain::eager_reclaim, and the reclamation pass retire may run: every
\* retired node no hazard pointer names is freed.  `h` is the hazard set of
\* the calling thread at the call, `m` the memory map after the retire.
ReclaimBy(t, h, m) ==
    [n \in Nodes |->
        IF m[n] = "retired" /\ n \notin h
           /\ ~(\E u \in Threads \ {t} : n \in Haz(u))
        THEN "freed" ELSE m[n]]


\* Domain::retire_ptr: the node is handed to the hazard-pointer domain
Retire(n) == [mem EXCEPT ![n] = "retired"]

\* ------------------------------------------------------------ step templates
OpId(t) == <<t, opi[t]>>
Completed == UNION {{<<t, i>> : i \in 1..(opi[t] - 1)} : t \in Threads}

Trap(t) ==
    /\ pc' = [pc EXCEPT ![t] = "trap"]
    /\ uaf' = TRUE
    /\ UNCHANGED <<heap, mem, len, max_height, lv, prog, opi, nsetup, res>>

\* One step of thread t that dereferences the nodes in `touched`.
Step(t, touched, pcNew, lNew, heapNew, memNew, lenNew, mhNew) ==
    \E trap \in (IF AnyFreed(touched) THEN BOOLEAN ELSE {FALSE}) :
        IF trap THEN Trap(t)
        ELSE /\ pc' = [pc EXCEPT ![t] = pcNew]
             /\ lv' = [lv EXCEPT ![t] = lNew]
             /\ heap' = heapNew
             /\ mem' = memNew
             /\ len' = lenNew
             /\ max_height' = mhNew
             /\ uaf' = (uaf \/ AnyFreed(touched))
             /\ UNCHANGED <<prog, opi, nsetup, res>>

\* A step that only changes locals.
Local(t, touched, pcNew, lNew) ==
    Step(t, touched, pcNew, lNew, heap, mem, len, max_height)

\* Option<(K, V)>: None is the empty tuple
None == <<>>
KeyVal(n) == <<heap[n].key, heap[n].val>>

\* the pairs of the nodes whose removed flag is set (kept in `rm0` when
\* get_first or Iter::next is called)
RemovedPairs ==
    {KeyVal(n) : n \in {x \in Nodes : mem[x] \in {"live", "retired"}
                                       /\ heap[x].removed}}

\* The operation of thread t returns: `kv` is the pair (or the pair the
\* returned Entry reads), `out` what an iterator yielded, `won` the pairs
\* the call moved out of nodes it removed, `lost` the pairs of the nodes on
\* which its set_removed failed, `pre` the operations that had returned when
\* this one was invoked.
ReturnLost(t, touched, kv, out, lost) ==
    \E trap \in (IF AnyFreed(touched) THEN BOOLEAN ELSE {FALSE}) :
        IF trap THEN Trap(t)
        ELSE /\ pc' = [pc EXCEPT ![t] = "idle"]
             /\ lv' = [lv EXCEPT ![t] = L0]
             /\ res' = [res EXCEPT ![t] =
                           Append(@, [kv |-> kv, out |-> out,
                                      won |-> lv[t].won, lost |-> lost,
                                      pre |-> lv[t].pre])]
             /\ opi' = [opi EXCEPT ![t] = @ + 1]
             /\ uaf' = (uaf \/ AnyFreed(touched))
             /\ UNCHANGED <<heap, mem, len, max_height, prog, nsetup>>

Return(t, touched, kv, out) == ReturnLost(t, touched, kv, out, lv[t].lost)

\* ------------------------------------------------------------------- find
\* A caller enters find(key, search_closest); find continues at `fret`.
CallFind(l, key, closest, fret) ==
    [l EXCEPT !.key = key, !.closest = closest, !.fret = fret, !.i = 0,
              !.prev = NoPrev, !.target = Null, !.level = 0,
              !.curr = Null, !.next = Null, !.new_next = Null]

\* `(*next).key < *key`
\* a descent that also steps over a node of the searched key
KeyLessOrEq(n, key) == heap[n].key <= key
KeyLess(n, key) == heap[n].key < key

\* `match next` of the descent: step right at this level, or record the
\* predecessor pair and go one level down.
Advance(l, next) ==
    IF next # Null /\ KeyLess(next, l.key)
    THEN [l EXCEPT !.prev[l.level - 1] = <<l.curr, next>>, !.curr = next,
                   !.next = Null, !.new_next = Null]
    ELSE [l EXCEPT !.prev[l.level - 1] = <<l.curr, next>>,
                   !.level = l.level - 1, !.next = Null, !.new_next = Null]

AfterAdvance(l, next) ==
    IF next # Null /\ KeyLess(next, l.key) THEN "find_next"
    ELSE IF l.level - 1 = 0 THEN "find_end" ELSE "find_next"

\* the inner `loop` of the descent with a freshly loaded `next`
LoopPc(l, next) == IF next = Null THEN AfterAdvance(l, Null) ELSE "find_tag"
LoopLv(l, next) ==
    IF next = Null THEN Advance(l, Null)
    ELSE [l EXCEPT !.next = next, !.new_next = Null]

\* prev[i] = (head, from_maybe_tagged(head.levels[i]))
FindInit(t) ==
    /\ pc[t] = "find_init"
    /\ LET l == lv[t]
           l2 == [l EXCEPT !.prev[l.i] = <<head, heap[head].ptr[l.i]>>,
                         !.i = l.i + 1]
       IN Local(t, {},
                IF l.i = HEIGHT - 1 THEN "find_mh" ELSE "find_init", l2)

\* '_search: level = max_height.load(); curr = head
FindMh(t) ==
    /\ pc[t] = "find_mh"
    /\ LET l == lv[t]
           l2 == [l EXCEPT !.level = max_height, !.curr = head,
                         !.next = Null, !.new_next = Null]
       IN Local(t, {}, IF max_height > 1 THEN "find_top" ELSE "find_next", l2)

\* while level > 1 && head.levels[level - 1].load_ptr().is_null()
FindTop(t) ==
    /\ pc[t] = "find_top"
    /\ LET l == lv[t]
       IN IF heap[head].ptr[l.level - 1] = Null
          THEN Local(t, {},
                     IF l.level - 1 > 1 THEN "find_top" ELSE "find_next",
                     [l EXCEPT !.level = l.level - 1])
          ELSE Local(t, {}, "find_next", l)

\* next = from_maybe_tagged(&curr.levels[level - 1])
FindNext(t) ==
    /\ pc[t] = "find_next"
    /\ LET l == lv[t]
           n == heap[l.curr].ptr[l.level - 1]
       IN Local(t, {l.curr, n}, LoopPc(l, n), LoopLv(l, n))

\* n.levels[level - 1].load_tag() == 0, then the key comparison
FindTag(t) ==
    /\ pc[t] = "find_tag"
    /\ LET l == lv[t]
       IN IF heap[l.next].tag[l.level - 1] = 0
          THEN Local(t, {l.next}, AfterAdvance(l, l.next), Advance(l, l.next))
          ELSE Local(t, {l.next}, "find_nn", l)

\* new_next = from_maybe_tagged(&n.levels[level - 1])
FindNn(t) ==
    /\ pc[t] = "find_nn"
    /\ LET l == lv[t]
       IN Local(t, {l.next}, "find_cas",
                [l EXCEPT !.new_next = heap[l.next].ptr[l.level - 1]])

\* an unlink_level that goes on to try_sub_ref when its compare_exchange failed
FindCasSkips(t) ==
    /\ pc[t] = "find_cas"
    /\ LET l == lv[t]
       IN IF CasOk(l.curr, l.level - 1, l.next)
          THEN Step(t, {l.curr}, "find_sub", l,
                    CasSet(l.curr, l.level - 1, l.new_next),
                    mem, len, max_height)
          ELSE Local(t, {l.curr}, "find_sub", l)

\* unlink_level: prev.levels[level].compare_exchange(curr, next)
FindCas(t) ==
    /\ pc[t] = "find_cas"
    /\ LET l == lv[t]
       IN IF CasOk(l.curr, l.level - 1, l.next)
          THEN Step(t, {l.curr}, "find_sub", l,
                    CasSet(l.curr, l.level - 1, l.new_next),
                    mem, len, max_height)
          ELSE Local(t, {l.curr}, "find_mh",
                     [l EXCEPT !.next = Null, !.new_next = Null])

\* unlink_level: curr.try_sub_ref().expect("not to underflow") == 0
FindSub(t) ==
    /\ pc[t] = "find_sub"
    /\ LET l == lv[t]
       IN IF heap[l.next].refs = 0
          THEN Local(t, {l.next}, "panic", l)
          ELSE IF heap[l.next].refs = 1
          THEN Step(t, {l.next}, "find_len", l, SubRef(l.next),
                    mem, len, max_height)
          ELSE Step(t, {l.next}, LoopPc(l, l.new_next), LoopLv(l, l.new_next),
                    SubRef(l.next), mem, len, max_height)

\* unlink_level: state.len.fetch_sub(1)
FindLen(t) ==
    /\ pc[t] = "find_len"
    /\ Step(t, {}, "find_retire", lv[t], heap, mem,
            (len - 1) % USIZE_MOD, max_height)

\* unlink_level: retire_node(curr); retire may run a reclamation pass
FindRetire(t) ==
    /\ pc[t] = "find_retire"
    /\ LET l == lv[t]
           m == Retire(l.next)
       IN \E pass \in BOOLEAN :
            Step(t, {}, LoopPc(l, l.new_next), LoopLv(l, l.new_next), heap,
                 IF pass THEN ReclaimBy(t, Haz(t), m) ELSE m, len, max_height)

\* search_closest = false:
\* from_maybe_tagged(&prev[0].0.levels[0])
FindEnd(t) ==
    /\ pc[t] = "find_end"
    /\ ~lv[t].closest
    /\ LET l == lv[t]
           p == l.prev[0][1]
           n == heap[p].ptr[0]
       IN IF n = Null
          THEN Local(t, {p}, l.fret, [l EXCEPT !.target = Null, !.curr = Null])
          ELSE Local(t, {p, n}, "find_chk", [l EXCEPT !.next = n, !.curr = Null])

\* a final check that compares the key only
FindChkAnyFlag(t) ==
    /\ pc[t] = "find_chk"
    /\ LET l == lv[t]
           hit == heap[l.next].key = l.key
       IN Local(t, {l.next}, l.fret,
                [l EXCEPT !.target = IF hit THEN l.next ELSE Null,
                          !.next = Null])

\* a final check that hands out the predecessor of the node it matched
FindChkPred(t) ==
    /\ pc[t] = "find_chk"
    /\ LET l == lv[t]
           hit == heap[l.next].key = l.key /\ ~heap[l.next].removed
       IN Local(t, {l.next}, l.fret,
                [l EXCEPT !.target = IF hit THEN l.prev[0][1] ELSE Null,
                          !.next = Null])

\* Some(next) if next.key == *key && !next.removed()
FindChk(t) ==
    /\ pc[t] = "find_chk"
    /\ LET l == lv[t]
           hit == heap[l.next].key = l.key /\ ~heap[l.next].removed
       IN Local(t, {l.next}, l.fret,
                [l EXCEPT !.target = IF hit THEN l.next ELSE Null,
                          !.next = Null])

\* search_closest = true: `curr.levels[level - 1]` is evaluated with
\* level = 0.  With overflow checks the subtraction panics.  Without them the
\* index wraps and get_unchecked reads the word in front of the tower, which
\* holds height_and_removed and padding: a null pointer when curr is a node
\* with its removed flag clear (height < 8), so find returns target None;
\* anything else is a wild pointer and the dereference that follows it
\* crashes.  head has height HEIGHT = 32, which is never read as null.
FindClosest(t) ==
    /\ pc[t] = "find_end"
    /\ lv[t].closest
    /\ LET l == lv[t]
           nullable == l.curr # head /\ ~heap[l.curr].removed
       IN \E crash \in (IF nullable THEN BOOLEAN ELSE {TRUE}) :
            IF crash
            THEN Local(t, {}, "panic", l)
            ELSE Local(t, {l.curr}, l.fret,
                       [l EXCEPT !.target = Null, !.curr = Null])

\* ------------------------------------------- removal: tag_levels and unlink
\* insert: prev = insertion_point.prev, (starting_height, prev) = (starting, search.prev)
ToLink(l) ==
    [l EXCEPT !.lprev = l.prev, !.prev = NoPrev, !.target = Null,
              !.hold = {}, !.i = l.start]

\* What follows tag_levels(1) at its three call sites.
AfterTagPc(l) == IF l.phase = "pop" THEN "ent_ret" ELSE "unl_load"
AfterTagLv(l) == [l EXCEPT !.i = l.uheight - 1]

\* Node::tag_levels(1): one compare_exchange_tag(0, 1) per level, top down
TagLevels(t) ==
    /\ pc[t] = "tag_levels"
    /\ LET l == lv[t]
           err == [l EXCEPT !.existing = None, !.unode = Null, !.target = Null]
       IN IF heap[l.unode].tag[l.i] # 0
          THEN CASE l.phase \in {"rem", "pop"} -> Local(t, {l.unode}, "panic", l)
                 [] l.phase = "ins_pre" -> Local(t, {l.unode}, "ins_gen", err)
                 [] OTHER -> Local(t, {l.unode}, "lnk_chk", ToLink(err))
          ELSE Step(t, {l.unode},
                    IF l.i = 0 THEN AfterTagPc(l) ELSE "tag_levels",
                    IF l.i = 0 THEN AfterTagLv(l) ELSE [l EXCEPT !.i = l.i - 1],
                    [heap EXCEPT ![l.unode].tag[l.i] = 1],
                    mem, len, max_height)

\* What follows unlink(..) at its three call sites (its result is only looked
\* at by remove).
AfterUnlinkPc(l, ok) ==
    IF l.phase = "rem" /\ ok THEN "rem_ret" ELSE "find_init"

AfterUnlinkLv(l, ok) ==
    LET l1 == [l EXCEPT !.unode = Null, !.raw = Null, !.i = 0, !.uheight = 0]
        kept == PairNodes(l.prev) \cup {l.target}
    IN CASE l.phase = "rem" /\ ok -> l1
         [] l.phase = "rem" /\ ~ok ->
                [CallFind(l1, l.key, FALSE, "rem_ret") EXCEPT !.hold = kept]
         [] l.phase = "ins_pre" ->
                [CallFind(l1, l.key, FALSE, "ins_evict") EXCEPT !.hold = kept]
         [] OTHER ->
                [CallFind(l1, l.key, FALSE, "ins_rloop") EXCEPT !.hold = kept]

\* unlink: (new_next, _tag) = node.levels[i].load_decomposed()
UnlLoad(t) ==
    /\ pc[t] = "unl_load"
    /\ LET l == lv[t]
       IN IF l.unode = head
          THEN Local(t, {}, "panic", l)
          ELSE Local(t, {l.unode}, "unl_cas",
                     [l EXCEPT !.raw = heap[l.unode].ptr[l.i]])

\* an unlink that goes on to the next level when its compare_exchange failed
UnlCasSkips(t) ==
    /\ pc[t] = "unl_cas"
    /\ LET l == lv[t]
           p == l.prev[l.i][1]
       IN IF CasOk(p, l.i, l.unode)
          THEN Step(t, {p}, "unl_sub", l, CasSet(p, l.i, l.raw),
                    mem, len, max_height)
          ELSE Local(t, {p}, "unl_sub", l)

\* unlink: prev.levels[i].compare_exchange(node, new_next)
UnlCas(t) ==
    /\ pc[t] = "unl_cas"
    /\ LET l == lv[t]
           p == l.prev[l.i][1]
       IN IF CasOk(p, l.i, l.unode)
          THEN Step(t, {p}, "unl_sub", l, CasSet(p, l.i, l.raw),
                    mem, len, max_height)
          ELSE Local(t, {p}, AfterUnlinkPc(l, FALSE), AfterUnlinkLv(l, FALSE))

\* unlink: node.try_sub_ref().expect("not to underflow")
UnlSub(t) ==
    /\ pc[t] = "unl_sub"
    /\ LET l == lv[t]
       IN IF heap[l.unode].refs = 0
          THEN Local(t, {l.unode}, "panic", l)
          ELSE Step(t, {l.unode},
                    IF l.i = 0 THEN "unl_len" ELSE "unl_load",
                    IF l.i = 0 THEN l ELSE [l EXCEPT !.i = l.i - 1],
                    SubRef(l.unode), mem, len, max_height)

\* an unlink that counts the node out of len twice
UnlLenTwice(t) ==
    /\ pc[t] = "unl_len"
    /\ Step(t, {}, "unl_retire", lv[t], heap, mem,
            (len - 2) % USIZE_MOD, max_height)

\* an unlink that leaves len alone
UnlLenKeeps(t) ==
    /\ pc[t] = "unl_len"
    /\ Step(t, {}, "unl_retire", lv[t], heap, mem, len, max_height)

\* unlink: state.len.fetch_sub(1)
UnlLen(t) ==
    /\ pc[t] = "unl_len"
    /\ Step(t, {}, "unl_retire", lv[t], heap, mem,
            (len - 1) % USIZE_MOD, max_height)

\* unlink: retire_node(node); garbage.domain.eager_reclaim()
UnlRetire(t) ==
    /\ pc[t] = "unl_retire"
    /\ LET l == lv[t]
       IN Step(t, {}, AfterUnlinkPc(l, TRUE), AfterUnlinkLv(l, TRUE), heap,
               ReclaimBy(t, Haz(t), Retire(l.unode)), len, max_height)

\* ----------------------------------------------------------------- insert
\* gen_height: the height the seed yields, clamped while the level below the
\* top one is empty in head
RECURSIVE GenHeight(_)
GenHeight(h) ==
    IF h >= 4 /\ heap[head].ptr[h - 2] = Null THEN GenHeight(h - 1) ELSE h

\* alloc(layout): a block never handed out before, or one dealloc gave back
FreshNode ==
    {n \in Nodes : mem[n] = "unalloc" /\ \A m \in Nodes : mem[m] = "unalloc" => n <= m}
    \cup {n \in Nodes : mem[n] = "freed"}

\* an eviction that drops the pair it took out of the node
EvictForgets(l, ph) ==
    [l EXCEPT !.existing = None, !.unode = l.target,
              !.won = l.won \cup {KeyVal(l.target)},
              !.uheight = heap[l.target].height,
              !.i = heap[l.target].height - 1, !.phase = ph, !.hold = {}]

\* Node::set_removed on `target`, then what the eviction loops of insert do
\* with the result of try_remove_and_tag.
EvictOk(l, ph) ==
    [l EXCEPT !.existing = KeyVal(l.target), !.unode = l.target,
              !.won = l.won \cup {KeyVal(l.target)},
              !.uheight = heap[l.target].height,
              !.i = heap[l.target].height - 1, !.phase = ph, !.hold = {}]

\* insert: first pass of `while let Some(target) = insertion_point.target.take()`
InsEvict(t) ==
    /\ pc[t] = "ins_evict"
    /\ LET l == lv[t]
       IN IF l.target = Null
          THEN Local(t, {}, "ins_gen", [l EXCEPT !.hold = {}])
          ELSE IF ~SetRemovedOk(l.target)
          THEN Local(t, {l.target}, "ins_gen",
                     [l EXCEPT !.existing = None, !.target = Null, !.hold = {},
                               !.lost = l.lost \cup {KeyVal(l.target)}])
          ELSE Step(t, {l.target}, "tag_levels", EvictOk(l, "ins_pre"),
                    [heap EXCEPT ![l.target].removed = TRUE],
                    mem, len, max_height)

\* Node::new_rand_height -> gen_height: the seed, the clamp, max_height.load()
InsGen(t) ==
    /\ pc[t] = "ins_gen"
    /\ LET l == lv[t]
           o == prog[t][opi[t]]
       IN Local(t, {}, "ins_new",
                [l EXCEPT !.hgt = GenHeight(o.h), !.mh = max_height])

\* gen_height: max_height.store(height) if height > max_height; Node::new;
\* NodeRef::from_raw(new_node_raw)
InsNew(t) ==
    /\ pc[t] = "ins_new"
    /\ LET l == lv[t]
           o == prog[t][opi[t]]
       IN \E n \in FreshNode :
            Step(t, {}, "ins_len",
                 [ToLink(l) EXCEPT !.new_node = n, !.start = 0, !.i = 0],
                 [heap EXCEPT ![n] = NewNode(o.k, o.v, l.hgt)],
                 [mem EXCEPT ![n] = "live"], len,
                 IF l.hgt > l.mh THEN l.hgt ELSE max_height)

\* an insert that does not count its node
InsLenSkips(t) ==
    /\ pc[t] = "ins_len"
    /\ Step(t, {}, "lnk_chk", lv[t], heap, mem, len, max_height)

\* insert: state.len.fetch_add(1)
InsLen(t) ==
    /\ pc[t] = "ins_len"
    /\ Step(t, {}, "lnk_chk", lv[t], heap, mem, (len + 1) % USIZE_MOD, max_height)

\* link_nodes returned Err(i): search = find(&new_node.key, false)
LinkErr(l) ==
    [CallFind(l, heap[l.new_node].key, FALSE, "ins_rloop")
        EXCEPT !.start = l.i, !.lprev = NoPrev]

\* a link_nodes that does not compare the key of next with the new key
LnkChkNoKey(t) ==
    /\ pc[t] = "lnk_chk"
    /\ LET l == lv[t]
           nn == l.new_node
           next == l.lprev[l.i][2]
       IN IF l.i >= heap[nn].height \/ heap[nn].removed
          THEN Local(t, {nn}, "ins_ret", l)
          ELSE Local(t, {nn, next}, "lnk_store", l)

\* link_nodes, level i: `if new_node.removed() { break }`, then the key of next
LnkChk(t) ==
    /\ pc[t] = "lnk_chk"
    /\ LET l == lv[t]
           nn == l.new_node
           next == l.lprev[l.i][2]
       IN IF l.i >= heap[nn].height \/ heap[nn].removed
          THEN Local(t, {nn}, "ins_ret", l)
          ELSE IF next # Null /\ heap[next].key <= heap[nn].key
          THEN Local(t, {nn, next}, "lnk_chk2", l)
          ELSE Local(t, {nn, next}, "lnk_store", l)

\* link_nodes: `n.key <= new_node.key && !new_node.removed()` reads the flag
\* a second time
LnkChk2(t) ==
    /\ pc[t] = "lnk_chk2"
    /\ LET l == lv[t]
       IN IF heap[l.new_node].removed
          THEN Local(t, {l.new_node}, "lnk_store", l)
          ELSE Local(t, {l.new_node}, "find_init", LinkErr(l))

\* link_nodes: new_node.levels[i].store_ptr(next_ptr)
LnkStore(t) ==
    /\ pc[t] = "lnk_store"
    /\ LET l == lv[t]
       IN Step(t, {l.new_node}, "lnk_ref", l,
               [heap EXCEPT ![l.new_node].ptr[l.i] = l.lprev[l.i][2],
                            ![l.new_node].tag[l.i] = 0],
               mem, len, max_height)

\* link_nodes: add_ref at level 0, try_add_ref above it
LnkRef(t) ==
    /\ pc[t] = "lnk_ref"
    /\ LET l == lv[t]
       IN IF l.i > 0 /\ heap[l.new_node].refs = 0
          THEN Local(t, {l.new_node}, "ins_ret", l)
          ELSE Step(t, {l.new_node}, "lnk_cas", l, AddRef(l.new_node),
                    mem, len, max_height)

\* a link_nodes that goes on to the level above when its compare_exchange
\* failed
LnkCasSkipsLevel(t) ==
    /\ pc[t] = "lnk_cas"
    /\ LET l == lv[t]
           p == l.lprev[l.i][1]
       IN IF CasOk(p, l.i, l.lprev[l.i][2])
          THEN Step(t, {p}, "lnk_chk", [l EXCEPT !.i = l.i + 1],
                    CasSet(p, l.i, l.new_node), mem, len, max_height)
          ELSE Local(t, {p}, "lnk_chk", [l EXCEPT !.i = l.i + 1])

\* link_nodes: prev.levels[i].compare_exchange(next_ptr, new_node)
LnkCas(t) ==
    /\ pc[t] = "lnk_cas"
    /\ LET l == lv[t]
           p == l.lprev[l.i][1]
       IN IF CasOk(p, l.i, l.lprev[l.i][2])
          THEN Step(t, {p}, "lnk_chk", [l EXCEPT !.i = l.i + 1],
                    CasSet(p, l.i, l.new_node), mem, len, max_height)
          ELSE Local(t, {p}, "lnk_sub", l)

\* link_nodes: new_node.sub_ref(); return Err(i)
LnkSub(t) ==
    /\ pc[t] = "lnk_sub"
    /\ LET l == lv[t]
       IN Step(t, {l.new_node}, "find_init", LinkErr(l), SubRef(l.new_node),
               mem, len, max_height)

\* insert: `while let Some(target) = search.target.take()` of the retry loop,
\* then (starting_height, prev) = (starting, search.prev)
InsRloop(t) ==
    /\ pc[t] = "ins_rloop"
    /\ LET l == lv[t]
       IN IF l.target = Null \/ l.target = l.new_node
          THEN Local(t, {}, "lnk_chk", ToLink(l))
          ELSE IF ~SetRemovedOk(l.target)
          THEN Local(t, {l.target}, "lnk_chk",
                     ToLink([l EXCEPT !.existing = None,
                                      !.lost = l.lost \cup {KeyVal(l.target)}]))
          ELSE Step(t, {l.target}, "tag_levels", EvictOk(l, "ins_post"),
                    [heap EXCEPT ![l.target].removed = TRUE],
                    mem, len, max_height)

\* insert returns `existing`
InsRet(t) ==
    /\ pc[t] = "ins_ret"
    /\ Return(t, {}, lv[t].existing, <<>>)

\* ----------------------------------------------------------------- remove
\* remove: match find(key, false); target.set_removed()
RemSet(t) ==
    /\ pc[t] = "rem_set"
    /\ LET l == lv[t]
       IN IF l.target = Null
          THEN Return(t, {}, None, <<>>)
          ELSE IF ~SetRemovedOk(l.target)
          THEN ReturnLost(t, {l.target}, None, <<>>, {KeyVal(l.target)})
          ELSE Step(t, {l.target}, "tag_levels",
                    [l EXCEPT !.unode = l.target, !.existing = KeyVal(l.target),
                              !.won = {KeyVal(l.target)},
                              !.uheight = heap[l.target].height,
                              !.i = heap[l.target].height - 1, !.phase = "rem"],
                    [heap EXCEPT ![l.target].removed = TRUE],
                    mem, len, max_height)

\* remove returns Some((key, val))
RemRet(t) ==
    /\ pc[t] = "rem_ret"
    /\ Return(t, {}, lv[t].existing, <<>>)

\* -------------------------------------------------------------------- get
\* get: is_empty(), else find(key, false)
GetStart(t) ==
    /\ pc[t] = "get_start"
    /\ IF len < 1
       THEN Return(t, {}, None, <<>>)
       ELSE Local(t, {}, "find_init",
                  CallFind(lv[t], prog[t][opi[t]].k, FALSE, "get_ret"))

\* get returns the Entry made of the target
GetRet(t) ==
    /\ pc[t] = "get_ret"
    /\ LET n == lv[t].target
       IN IF n = Null THEN Return(t, {}, None, <<>>)
          ELSE Return(t, {n}, KeyVal(n), <<>>)

\* -------------------------------------------------- next_node and get_first
\* next_node returns `r` to its caller
NnReturn(l, r) ==
    [l EXCEPT !.target = r, !.next = Null, !.new_next = Null, !.curr = Null,
              !.prev = NoPrev, !.nloop = FALSE]

\* find(&node.key, true): the key slot of head was never written
NodeKeys(n) == IF n = head THEN Keys \cup {NoKey} ELSE {heap[n].key}

\* next_node: `if node.levels[0].load_tag() == 1 { return find(&node.key, true) }`
NnTag(t) ==
    /\ pc[t] = "nn_tag"
    /\ LET l == lv[t]
       IN IF heap[l.node].tag[0] = 1
          THEN \E k \in NodeKeys(l.node) :
                  Local(t, {l.node}, "find_init",
                        [CallFind(l, k, TRUE, "nn_found") EXCEPT !.nloop = FALSE])
          ELSE Local(t, {l.node}, "nn_load", l)

\* next_node: next = from_maybe_tagged(&node.levels[0])?
NnLoad(t) ==
    /\ pc[t] = "nn_load"
    /\ LET l == lv[t]
           n == heap[l.node].ptr[0]
       IN IF n = Null
          THEN Local(t, {l.node}, l.nret, NnReturn(l, Null))
          ELSE Local(t, {l.node, n}, "nn_ntag", [l EXCEPT !.next = n])

\* next_node: `while next.levels[0].load_tag() == 1`
NnNtag(t) ==
    /\ pc[t] = "nn_ntag"
    /\ LET l == lv[t]
       IN IF heap[l.next].tag[0] = 1
          THEN Local(t, {l.next}, "nn_new", l)
          ELSE Local(t, {l.next}, l.nret, NnReturn(l, l.next))

\* next_node: new = from_maybe_tagged(&next.levels[0])
NnNew(t) ==
    /\ pc[t] = "nn_new"
    /\ LET l == lv[t]
       IN Local(t, {l.next}, "nn_cas",
                [l EXCEPT !.new_next = heap[l.next].ptr[0]])

\* next_node: unlink_level(&node, next, new, 0), or find(&node.key, true)
NnCas(t) ==
    /\ pc[t] = "nn_cas"
    /\ LET l == lv[t]
       IN IF CasOk(l.node, 0, l.next)
          THEN Step(t, {l.node}, "nn_sub", l, CasSet(l.node, 0, l.new_next),
                    mem, len, max_height)
          ELSE \E k \in NodeKeys(l.node) :
                  Local(t, {l.node}, "find_init",
                        [CallFind(l, k, TRUE, "nn_found") EXCEPT !.nloop = TRUE])

\* the rest of the loop body with the successor unlink_level returned
NnLoopPc(l, n) == IF n = Null THEN l.nret ELSE "nn_ntag"
NnLoopLv(l, n) ==
    IF n = Null THEN NnReturn(l, Null)
    ELSE [l EXCEPT !.next = n, !.new_next = Null, !.target = Null,
                   !.prev = NoPrev]

\* unlink_level: curr.try_sub_ref().expect("not to underflow") == 0
NnSub(t) ==
    /\ pc[t] = "nn_sub"
    /\ LET l == lv[t]
       IN IF heap[l.next].refs = 0
          THEN Local(t, {l.next}, "panic", l)
          ELSE IF heap[l.next].refs = 1
          THEN Step(t, {l.next}, "nn_len", l, SubRef(l.next),
                    mem, len, max_height)
          ELSE Step(t, {l.next}, NnLoopPc(l, l.new_next),
                    NnLoopLv(l, l.new_next), SubRef(l.next),
                    mem, len, max_height)

\* unlink_level: state.len.fetch_sub(1)
NnLen(t) ==
    /\ pc[t] = "nn_len"
    /\ Step(t, {}, "nn_retire", lv[t], heap, mem,
            (len - 1) % USIZE_MOD, max_height)

\* unlink_level: retire_node(curr); retire may run a reclamation pass
NnRetire(t) ==
    /\ pc[t] = "nn_retire"
    /\ LET l == lv[t]
           m == Retire(l.next)
       IN \E pass \in BOOLEAN :
            Step(t, {}, NnLoopPc(l, l.new_next), NnLoopLv(l, l.new_next), heap,
                 IF pass THEN ReclaimBy(t, Haz(t), m) ELSE m, len, max_height)

\* next_node: the target find(&node.key, true) returned
NnFound(t) ==
    /\ pc[t] = "nn_found"
    /\ LET l == lv[t]
       IN IF l.nloop
          THEN Local(t, {}, NnLoopPc(l, l.target), NnLoopLv(l, l.target))
          ELSE Local(t, {}, l.nret, NnReturn(l, l.target))

\* get_first: is_empty(), else next_node(head)
FirstStart(t) ==
    /\ pc[t] = "first_start"
    /\ LET l == lv[t]
       IN IF len < 1
          THEN Local(t, {}, l.nret, NnReturn(l, Null))
          ELSE Local(t, {}, "nn_tag", [l EXCEPT !.node = head])

\* ------------------------------------------------------------------- iter
\* Iter::from_list: next = list.get_first(); then Iter::next:
\* self.next = list.next_node(&next)
ItFirst(t) ==
    /\ pc[t] = "it_first"
    /\ LET l == lv[t]
       IN IF l.target = Null
          THEN Return(t, {}, None, <<>>)
          ELSE Local(t, {}, "nn_tag",
                     [l EXCEPT !.ent = l.target, !.node = l.target,
                               !.target = Null, !.nret = "it_yield",
                               !.rm0 = RemovedPairs])

\* an iterator that ends as soon as next_node finds no successor
ItYieldDropsLast(t) ==
    /\ pc[t] = "it_yield"
    /\ Len(lv[t].out) < MaxYield
    /\ LET l == lv[t]
       IN IF l.target = Null
          THEN Return(t, {l.ent}, None, l.out)
          ELSE Local(t, {l.ent}, "nn_tag",
                     [l EXCEPT !.out = Append(l.out, KeyVal(l.ent)),
                               !.ent = l.target, !.node = l.target,
                               !.target = Null])

\* Iter::next returns Some(next); the consumer reads its key and calls next()
ItYield(t) ==
    /\ pc[t] = "it_yield"
    /\ Len(lv[t].out) < MaxYield
    /\ LET l == lv[t]
           o == Append(l.out, KeyVal(l.ent))
       IN IF l.target = Null
          THEN Return(t, {l.ent}, None, o)
          ELSE Local(t, {l.ent}, "nn_tag",
                     [l EXCEPT !.out = o, !.ent = l.target, !.node = l.target,
                               !.target = Null, !.rm0 = RemovedPairs])

\* ------------------------------------------- Entry::remove (PriorityQueue::pop)
\* an Entry::remove that goes on when set_removed reports an earlier remover
EntSetAnyway(t) ==
    /\ pc[t] = "ent_set"
    /\ LET l == lv[t]
       IN IF l.target = Null
          THEN Return(t, {}, None, <<>>)
          ELSE Step(t, {l.target}, "tag_levels",
                    [l EXCEPT !.unode = l.target, !.existing = KeyVal(l.target),
                              !.won = {KeyVal(l.target)},
                              !.uheight = heap[l.target].height,
                              !.i = heap[l.target].height - 1, !.phase = "pop"],
                    [heap EXCEPT ![l.target].removed = TRUE],
                    mem, len, max_height)

\* pop: first = get_first()?; Entry::remove: node.set_removed().ok()?
EntSet(t) ==
    /\ pc[t] = "ent_set"
    /\ LET l == lv[t]
       IN IF l.target = Null
          THEN Return(t, {}, None, <<>>)
          ELSE IF ~SetRemovedOk(l.target)
          THEN ReturnLost(t, {l.target}, None, <<>>, {KeyVal(l.target)})
          ELSE Step(t, {l.target}, "tag_levels",
                    [l EXCEPT !.unode = l.target, !.existing = KeyVal(l.target),
                              !.won = {KeyVal(l.target)},
                              !.uheight = heap[l.target].height,
                              !.i = heap[l.target].height - 1, !.phase = "pop"],
                    [heap EXCEPT ![l.target].removed = TRUE],
                    mem, len, max_height)

\* Entry::remove returns Some((key, val))
EntRet(t) ==
    /\ pc[t] = "ent_ret"
    /\ Return(t, {}, lv[t].existing, <<>>)

\* ------------------------------------------------------------- invocations
CanInvoke(t, ty) ==
    /\ pc[t] = "idle"
    /\ opi[t] <= Len(prog[t])
    /\ prog[t][opi[t]].type = ty
    /\ t # 1 => opi[1] > nsetup

Invoke(t, pcNew, lNew) ==
    /\ pc' = [pc EXCEPT ![t] = pcNew]
    /\ lv' = [lv EXCEPT ![t] = [lNew EXCEPT !.pre = Completed]]
    /\ UNCHANGED <<heap, mem, len, max_height, prog, opi, nsetup, res, uaf>>

\* insert(key, val): insertion_point = find(&key, false)
Insert(t) ==
    /\ CanInvoke(t, "insert")
    /\ Invoke(t, "find_init", CallFind(L0, prog[t][opi[t]].k, FALSE, "ins_evict"))

\* remove(key): find(key, false)
Remove(t) ==
    /\ CanInvoke(t, "remove")
    /\ Invoke(t, "find_init", CallFind(L0, prog[t][opi[t]].k, FALSE, "rem_set"))

Get(t) ==
    /\ CanInvoke(t, "get")
    /\ Invoke(t, "get_start", L0)

\* iter(): Iter::from_list
Iter(t) ==
    /\ CanInvoke(t, "iter")
    /\ Invoke(t, "first_start",
              [L0 EXCEPT !.nret = "it_first", !.rm0 = RemovedPairs])

\* PriorityQueue::pop on the concurrent list
Pop(t) ==
    /\ CanInvoke(t, "pop")
    /\ Invoke(t, "first_start",
              [L0 EXCEPT !.nret = "ent_set", !.rm0 = RemovedPairs])

\* ------------------------------------------------------------ programs
OpInsert(k, v, h) == [type |-> "insert", k |-> k, v |-> v, h |-> h]
OpRemove(k) == [type |-> "remove", k |-> k, v |-> 0, h |-> 0]
OpGet(k) == [type |-> "get", k |-> k, v |-> 0, h |-> 0]
OpIter == [type |-> "iter", k |-> 0, v |-> 0, h |-> 0]
OpPop == [type |-> "pop", k |-> 0, v |-> 0, h |-> 0]

InitWith(p1, p2, n) ==
    /\ heap = [n0 \in Nodes \cup {head} |-> HeadNode]
    /\ mem = [n0 \in Nodes |-> "unalloc"]
    /\ len = 0
    /\ max_height = 1
    /\ pc = [t \in Threads |-> "idle"]
    /\ lv = [t \in Threads |-> L0]
    /\ prog = [t \in Threads |-> IF t = 1 THEN p1 ELSE p2]
    /\ opi = [t \in Threads |-> 1]
    /\ nsetup = n
    /\ res = [t \in Threads |-> <<>>]
    /\ uaf = FALSE

\* A scenario: thread 1 runs the first n operations of p1 alone (they build
\* the list), then the rest of p1 runs concurrently with p2.  Every insert of
\* a scenario carries its own value, so a pair names the node it came from.
Sc(p1, p2, n) == [p1 |-> p1, p2 |-> p2, n |-> n]

\* two inserts of one key race, then get
FamInsert ==
    {Sc(s \o <<OpInsert(2, 5, h), OpGet(2)>>, <<OpInsert(2, 6, h)>>, Len(s)) :
        s \in {<<>>, <<OpInsert(1, 1, 2)>>}, h \in 1..2}
    \cup {Sc(<<OpInsert(2, 2, 1), OpInsert(2, 5, 1), OpGet(2)>>,
              <<OpInsert(2, 6, h)>>, 1) : h \in 1..2}

\* remove / pop of one node race with each other, with get and with insert
SetupRemove ==
    {<<OpInsert(2, 2, 1)>>,
     <<OpInsert(1, 1, 1), OpInsert(2, 2, 1)>>,
     <<OpInsert(1, 1, 2), OpInsert(2, 2, 2)>>}
FamRemove ==
    {Sc(s \o p1, p2, Len(s)) :
        s \in SetupRemove,
        p1 \in {<<OpRemove(2), OpGet(2), OpRemove(2)>>,
                <<OpPop, OpGet(1), OpGet(2)>>},
        p2 \in {<<OpRemove(2)>>, <<OpPop>>, <<OpGet(2)>>, <<OpRemove(1)>>,
                <<OpInsert(2, 6, 1)>>}}

\* get of a key nobody else touches, while the other thread works on its
\* neighbours
FamGet ==
    {Sc(s \o <<OpGet(2)>>, p2, Len(s)) :
        s \in {<<OpInsert(2, 2, 1)>>,
               <<OpInsert(1, 1, 1), OpInsert(2, 2, 1)>>,
               <<OpInsert(1, 1, 2), OpInsert(2, 2, 2)>>,
               <<OpInsert(2, 2, 2), OpInsert(3, 3, 1)>>},
        p2 \in {<<OpInsert(1, 7, 1)>>, <<OpRemove(1), OpInsert(1, 7, 2)>>,
                <<OpInsert(3, 7, 2), OpRemove(3)>>}}

\* a traversal stands on a node while the other thread removes that node and
\* its successors and allocates again
FamReclaim ==
    {Sc(<<OpInsert(1, 1, 1), OpInsert(2, 2, 1), OpInsert(3, 3, 1),
          OpInsert(4, 4, 1), o>>,
        <<OpRemove(1), OpRemove(2), OpRemove(4), OpInsert(4, 9, 1)>>, 4) :
        o \in {OpGet(3)}}

\* an iterator runs while the other thread removes and inserts
FamIter ==
    {Sc(s \o <<OpIter>>, p2, Len(s)) :
        s \in {<<OpInsert(1, 1, 1), OpInsert(2, 2, 1)>>,
               <<OpInsert(1, 1, 2), OpInsert(2, 2, 1), OpInsert(3, 3, 1)>>},
        p2 \in {<<OpRemove(1)>>, <<OpRemove(2), OpInsert(2, 7, 1)>>,
                <<OpPop>>, <<OpInsert(3, 7, 1)>>}}
    \cup {Sc(<<OpInsert(1, 1, 1), OpInsert(2, 2, 1), OpInsert(3, 3, 1), OpIter>>,
              <<OpRemove(1), OpRemove(2), OpRemove(3), OpInsert(1, 7, 1)>>, 3)}

\* each thread both inserts and removes the key
FamMixed ==
    {Sc(<<OpInsert(2, 2, 1), OpInsert(2, 5, 2), OpRemove(2)>>,
        <<OpRemove(2), OpInsert(2, 6, 1)>>, 1),
     Sc(<<OpInsert(2, 2, 2), OpRemove(2), OpGet(2)>>, <<OpInsert(2, 6, 2)>>, 1),
     Sc(<<OpInsert(2, 5, 2)>>, <<OpInsert(2, 6, 2)>>, 0),
     Sc(<<OpInsert(2, 2, 2), OpRemove(2)>>, <<OpRemove(2)>>, 1),
     Sc(<<OpInsert(1, 1, 1), OpInsert(2, 2, 1), OpRemove(1)>>,
        <<OpRemove(2), OpInsert(1, 7, 1)>>, 2)}

\* priority queue: thread 1 pushes 1, 2, .. in ascending order while thread 2
\* pops; two pops at once on a queue of two elements
FamQueue ==
    {Sc(<<OpInsert(1, 1, h1), OpInsert(2, 2, h2)>>, <<OpPop, OpPop, OpPop>>, 0) :
        h1 \in 1..HEIGHT, h2 \in {1}}
    \cup {Sc(<<OpInsert(1, 1, 1), OpInsert(2, 2, 1), OpPop>>, <<OpPop>>, 2)}

Scenarios ==
    FamInsert \cup FamRemove \cup FamGet \cup FamReclaim \cup FamIter
        \cup FamMixed \cup FamQueue

Init == \E sc \in Scenarios : InitWith(sc.p1, sc.p2, sc.n)

\* single-threaded use: thread 1 runs up to MaxSeqOps inserts and removes,
\* the i-th insert with value i, and then one iter() or get(k)
SeqKeys == {1, 2, 3}
SeqShapes ==
    {[type |-> "insert", k |-> k, h |-> h] : k \in SeqKeys, h \in 1..2}
    \cup {[type |-> "remove", k |-> k, h |-> 0] : k \in SeqKeys}
SeqProg(f, n) ==
    [i \in 1..n |-> IF f[i].type = "insert" THEN OpInsert(f[i].k, i, f[i].h)
                    ELSE OpRemove(f[i].k)]
InitSeq ==
    \E n \in 0..MaxSeqOps : \E f \in [1..n -> SeqShapes] :
        \E last \in {OpIter} \cup {OpGet(k) : k \in SeqKeys} :
            InitWith(SeqProg(f, n) \o <<last>>, <<>>, n + 1)

\* one step of a call of thread t other than a traversal
StepCall(t) ==
    \/ Insert(t) \/ Remove(t) \/ Get(t) \/ Pop(t)
    \/ FindInit(t) \/ FindMh(t) \/ FindTop(t) \/ FindNext(t) \/ FindTag(t)
    \/ FindNn(t) \/ FindCas(t) \/ FindSub(t) \/ FindLen(t) \/ FindRetire(t)
    \/ FindEnd(t) \/ FindChk(t) \/ FindClosest(t)
    \/ TagLevels(t)
    \/ UnlLoad(t) \/ UnlCas(t) \/ UnlSub(t) \/ UnlLen(t) \/ UnlRetire(t)
    \/ InsEvict(t) \/ InsGen(t) \/ InsNew(t) \/ InsLen(t) \/ LnkChk(t)
    \/ LnkChk2(t) \/ LnkStore(t) \/ LnkRef(t) \/ LnkCas(t) \/ LnkSub(t)
    \/ InsRloop(t) \/ InsRet(t)
    \/ RemSet(t) \/ RemRet(t) \/ GetStart(t) \/ GetRet(t)
    \/ NnTag(t) \/ NnLoad(t) \/ NnNtag(t) \/ NnNew(t) \/ NnCas(t)
    \/ NnSub(t) \/ NnLen(t) \/ NnRetire(t) \/ NnFound(t) \/ FirstStart(t)
    \/ EntSet(t) \/ EntRet(t)

\* one step of thread t
StepOf(t) == StepCall(t) \/ Iter(t) \/ ItFirst(t) \/ ItYield(t)

\* Drop: the nodes `node = (*temp).levels[0].load_ptr()` walks from head
RECURSIVE DropWalk(_, _)
DropWalk(n, seen) ==
    IF n = Null \/ n \in seen THEN seen
    ELSE DropWalk(heap[n].ptr[0], seen \cup {n})

\* Drop for SkipList, once every thread has finished its calls: Node::drop
\* on each node of the level 0 chain, then Head::drop
Drop ==
    /\ \A t \in Threads : pc[t] = "idle" /\ opi[t] > Len(prog[t])
    /\ LET chain == DropWalk(heap[head].ptr[0], {})
       IN /\ mem' = [n \in Nodes |-> IF n \in chain THEN "freed" ELSE mem[n]]
          /\ uaf' = (uaf \/ AnyFreed(chain))
    /\ pc' = [t \in Threads |-> "dropped"]
    /\ UNCHANGED <<heap, len, max_height, lv, prog, opi, nsetup, res>>

Next == (\E t \in Threads : StepOf(t)) \/ Drop

Spec == Init /\ [][Next]_vars

\* the scenarios run under a fair scheduler: two threads insert one key
\* into the empty list with towers of two levels; removes, a get and a pop
\* race on a list of two nodes
FamLive ==
    {Sc(<<OpInsert(2, 5, 2)>>, <<OpInsert(2, 6, 2)>>, 0),
     Sc(<<OpInsert(1, 1, 1), OpInsert(2, 2, 2), OpRemove(2), OpGet(1)>>,
        <<OpPop, OpPop>>, 2)}

InitLive == \E sc \in FamLive : InitWith(sc.p1, sc.p2, sc.n)

\* every thread is an OS thread that keeps being scheduled
NextLive == \E t \in Threads : StepCall(t)

SpecLive ==
    InitLive /\ [][NextLive]_vars /\ \A t \in Threads : WF_vars(StepCall(t))

\* the steps single-threaded inserts, removes, gets and traversals take
NextSeq ==
    \E t \in Threads :
        \/ Insert(t) \/ Remove(t) \/ Get(t) \/ Iter(t)
        \/ FindInit(t) \/ FindMh(t) \/ FindTop(t) \/ FindNext(t) \/ FindTag(t)
        \/ FindEnd(t) \/ FindChk(t)
        \/ TagLevels(t)
        \/ UnlLoad(t) \/ UnlCas(t) \/ UnlSub(t) \/ UnlLen(t) \/ UnlRetire(t)
        \/ InsEvict(t) \/ InsGen(t) \/ InsNew(t) \/ InsLen(t) \/ LnkChk(t)
        \/ LnkStore(t) \/ LnkRef(t) \/ LnkCas(t) \/ InsRet(t)
        \/ RemSet(t) \/ RemRet(t) \/ GetStart(t) \/ GetRet(t)
        \/ NnTag(t) \/ NnLoad(t) \/ NnNtag(t) \/ FirstStart(t)
        \/ ItFirst(t) \/ ItYield(t)

SpecSeq == InitSeq /\ [][NextSeq]_vars

\* single-threaded use of the list as a priority queue: thread 1 runs up to
\* MaxPqOps inserts, removes and pops, the i-th insert with value i, and then
\* one more call
PqKeys == {1, 2}
PqShapes ==
    {[type |-> "insert", k |-> k, h |-> h] : k \in PqKeys, h \in 1..2}
    \cup {[type |-> "remove", k |-> k, h |-> 0] : k \in PqKeys}
    \cup {[type |-> "pop", k |-> 0, h |-> 0]}
PqProg(f, n) ==
    [i \in 1..n |-> IF f[i].type = "insert" THEN OpInsert(f[i].k, i, f[i].h)
                    ELSE IF f[i].type = "remove" THEN OpRemove(f[i].k)
                    ELSE OpPop]
InitPq ==
    \E n \in 0..MaxPqOps : \E f \in [1..n -> PqShapes] :
        \E last \in {OpIter, OpPop} \cup {OpGet(k) : k \in PqKeys}
                    \cup {OpRemove(k) : k \in PqKeys} :
            InitWith(PqProg(f, n) \o <<last>>, <<>>, n + 1)

\* the steps single-threaded inserts, removes, pops, gets and traversals take
NextPq ==
    \E t \in Threads :
        \/ Insert(t) \/ Remove(t) \/ Get(t) \/ Iter(t) \/ Pop(t)
        \/ FindInit(t) \/ FindMh(t) \/ FindTop(t) \/ FindNext(t) \/ FindTag(t)
        \/ FindNn(t) \/ FindCas(t) \/ FindSub(t) \/ FindLen(t) \/ FindRetire(t)
        \/ FindEnd(t) \/ FindChk(t)
        \/ TagLevels(t)
        \/ UnlLoad(t) \/ UnlCas(t) \/ UnlSub(t) \/ UnlLen(t) \/ UnlRetire(t)
        \/ InsEvict(t) \/ InsGen(t) \/ InsNew(t) \/ InsLen(t) \/ LnkChk(t)
        \/ LnkStore(t) \/ LnkRef(t) \/ LnkCas(t) \/ InsRet(t)
        \/ RemSet(t) \/ RemRet(t) \/ GetStart(t) \/ GetRet(t)
        \/ NnTag(t) \/ NnLoad(t) \/ NnNtag(t) \/ NnNew(t) \/ NnCas(t)
        \/ NnSub(t) \/ NnLen(t) \/ NnRetire(t) \/ FirstStart(t)
        \/ ItFirst(t) \/ ItYield(t) \/ EntSet(t) \/ EntRet(t)

SpecPq == InitPq /\ [][NextPq]_vars

\* ------------------------------------------------------ IntoIter (iter.rs)
\* IntoIter::from_list(list), once no call is in flight: next is head's
\* level 0 pointer, every level of head is stored null, and the list is
\* dropped at the end of the function (its Drop walks the emptied head)
IntoFromList ==
    /\ \A t \in Threads : pc[t] = "idle" /\ opi[t] > Len(prog[t])
    /\ pc' = [pc EXCEPT ![1] = "into_next"]
    /\ lv' = [lv EXCEPT ![1] = [L0 EXCEPT !.raw = heap[head].ptr[0]]]
    /\ heap' = [heap EXCEPT ![head].ptr = NullLevels, ![head].tag = ZeroTags]
    /\ UNCHANGED <<mem, len, max_height, prog, opi, nsetup, res, uaf>>

\* IntoIter::next: None on a null pointer; otherwise load the level 0
\* pointer of the node, ptr::read its key and val, Node::dealloc it
IntoNext ==
    /\ pc[1] = "into_next"
    /\ Len(lv[1].out) <= MaxNodes
    /\ LET l == lv[1]
           n == l.raw
       IN IF n = Null
          THEN Local(1, {}, "into_done", l)
          ELSE Step(1, {n}, "into_next",
                    [l EXCEPT !.raw = heap[n].ptr[0],
                              !.out = Append(l.out, KeyVal(n))],
                    heap, [mem EXCEPT ![n] = "freed"], len, max_height)

\* thread 1 makes up to MaxIntoOps inserts, removes and pops, the i-th insert
\* with value i; the list is then consumed by into_iter
InitInto ==
    \E n \in 0..MaxIntoOps : \E f \in [1..n -> PqShapes] :
        InitWith(PqProg(f, n), <<>>, n)

NextInto ==
    \/ \E t \in Threads :
        \/ Insert(t) \/ Remove(t) \/ Pop(t)
        \/ FindInit(t) \/ FindMh(t) \/ FindTop(t) \/ FindNext(t) \/ FindTag(t)
        \/ FindNn(t) \/ FindCas(t) \/ FindSub(t) \/ FindLen(t) \/ FindRetire(t)
        \/ FindEnd(t) \/ FindChk(t)
        \/ TagLevels(t)
        \/ UnlLoad(t) \/ UnlCas(t) \/ UnlSub(t) \/ UnlLen(t) \/ UnlRetire(t)
        \/ InsEvict(t) \/ InsGen(t) \/ InsNew(t) \/ InsLen(t) \/ LnkChk(t)
        \/ LnkStore(t) \/ LnkRef(t) \/ LnkCas(t) \/ InsRet(t)
        \/ RemSet(t) \/ RemRet(t)
        \/ NnTag(t) \/ NnLoad(t) \/ NnNtag(t) \/ NnNew(t) \/ NnCas(t)
        \/ NnSub(t) \/ NnLen(t) \/ NnRetire(t) \/ FirstStart(t)
        \/ EntSet(t) \/ EntRet(t)
    \/ IntoFromList
    \/ IntoNext

SpecInto == InitInto /\ [][NextInto]_vars

\* ------------------------------------------- the single-threaded skip list
\* PriorityQueue::new() wraps internal::skiplist::SkipList; its calls take
\* &mut self or run on one thread, so each is one step of thread 1.

\* find: the highest level that head links
RECURSIVE SlTop(_)
SlTop(level) ==
    IF level > 1 /\ heap[head].ptr[level - 1] = Null THEN SlTop(level - 1)
    ELSE level

\* find: the descent `while level > 0`, recording the predecessor per level
RECURSIVE SlDescend(_, _, _, _)
SlDescend(key, curr, level, prev) ==
    IF level = 0 THEN [prev |-> prev, curr |-> curr]
    ELSE LET nxt == heap[curr].ptr[level - 1]
         IN IF nxt = Null \/ heap[nxt].key >= key
            THEN SlDescend(key, curr, level - 1, [prev EXCEPT ![level - 1] = curr])
            ELSE SlDescend(key, nxt, level, prev)

\* find(key): the predecessors and the node of that key, if there is one
SlFind(key) ==
    LET d == SlDescend(key, head, SlTop(max_height), [l \in Levels |-> head])
        next == heap[d.curr].ptr[0]
    IN [prev |-> d.prev,
        target |-> IF next # Null /\ heap[next].key = key THEN next ELSE Null]

\* link_nodes(new_node, prev): level i of the new node takes prev[i]'s
\* successor and prev[i] points at the new node
SlLinkNodes(n, node, prev) ==
    [m \in Nodes \cup {head} |->
        IF m = n
        THEN [node EXCEPT !.ptr = [i \in Levels |->
                 IF i < node.height THEN heap[prev[i]].ptr[i] ELSE Null]]
        ELSE [heap[m] EXCEPT !.ptr = [i \in Levels |->
                 IF i < node.height /\ prev[i] = m THEN n ELSE heap[m].ptr[i]]]]

\* unlink(node, prev): prev[i] takes the node's successor at each level
SlUnlink(n, prev) ==
    [m \in Nodes \cup {head} |->
        [heap[m] EXCEPT !.ptr = [i \in Levels |->
            IF i < heap[n].height /\ prev[i] = m THEN heap[n].ptr[i]
            ELSE heap[m].ptr[i]]]]

\* the call of thread t returns kv and leaves the list as given
SlReturn(t, kv, heapNew, memNew, lenNew, mhNew) ==
    /\ res' = [res EXCEPT ![t] =
                  Append(@, [kv |-> kv, out |-> <<>>, won |-> {}, lost |-> {},
                             pre |-> Completed])]
    /\ opi' = [opi EXCEPT ![t] = @ + 1]
    /\ heap' = heapNew
    /\ mem' = memNew
    /\ len' = lenNew
    /\ max_height' = mhNew
    /\ UNCHANGED <<pc, lv, prog, nsetup, uaf>>

\* push(value) = queue.insert(value, ()): an equal key only swaps the unit
\* value; otherwise a node of a generated height is linked and len grows
Push(t) ==
    /\ CanInvoke(t, "insert")
    /\ LET op == prog[t][opi[t]]
           f == SlFind(op.k)
           h == GenHeight(op.h)
       IN IF f.target # Null
          THEN SlReturn(t, <<op.k, heap[f.target].val>>, heap, mem, len, max_height)
          ELSE \E n \in FreshNode :
                   SlReturn(t, None,
                            SlLinkNodes(n, NewNode(op.k, op.v, h), f.prev),
                            [mem EXCEPT ![n] = "live"],
                            (len + 1) % USIZE_MOD,
                            IF h > max_height THEN h ELSE max_height)

\* pop() = queue.remove_first(): get_first, then remove(first.key), which
\* unlinks and deallocates the node and decrements len
PopFirst(t) ==
    /\ CanInvoke(t, "pop")
    /\ LET first == heap[head].ptr[0]
       IN IF len < 1 \/ first = Null
          THEN SlReturn(t, None, heap, mem, len, max_height)
          ELSE LET f == SlFind(heap[first].key)
               IN IF f.target = Null
                  THEN SlReturn(t, None, heap, mem, len, max_height)
                  ELSE SlReturn(t, KeyVal(f.target), SlUnlink(f.target, f.prev),
                                [mem EXCEPT ![f.target] = "freed"],
                                (len - 1) % USIZE_MOD, max_height)

\* single-threaded use of PriorityQueue::new(): up to MaxHeapOps pushes of
\* the values in HeapVals, equal values included, and pops
HeapVals == {1, 2}
HeapShapes == {OpInsert(k, 0, h) : k \in HeapVals, h \in 1..HEIGHT} \cup {OpPop}
InitHeap ==
    \E n \in 1..MaxHeapOps : \E f \in [1..n -> HeapShapes] :
        InitWith(f, <<>>, n)

NextHeap == \E t \in Threads : Push(t) \/ PopFirst(t)

SpecHeap == InitHeap /\ [][NextHeap]_vars

\* --------------------------------------------- the SkipList trait (skiplist.rs)
\* internal::skiplist::SkipList and the earlier concurrent list of
\* internal/sync.rs both implement the trait; one thread calls them, so each
\* call is one step of thread 1.

\* internal::skiplist::SkipList::remove(key)
SlRemove(t) ==
    /\ CanInvoke(t, "sl_remove")
    /\ LET f == SlFind(prog[t][opi[t]].k)
       IN IF len < 1 \/ f.target = Null
          THEN SlReturn(t, None, heap, mem, len, max_height)
          ELSE SlReturn(t, KeyVal(f.target), SlUnlink(f.target, f.prev),
                        [mem EXCEPT ![f.target] = "freed"],
                        (len - 1) % USIZE_MOD, max_height)

\* get_last: `while !curr.levels[0].load().is_null()`
RECURSIVE SlWalkLast(_)
SlWalkLast(curr) ==
    IF heap[curr].ptr[0] = Null THEN curr ELSE SlWalkLast(heap[curr].ptr[0])

\* internal::skiplist::SkipList::get_first
SlGetFirst ==
    IF len < 1 \/ heap[head].ptr[0] = Null THEN None
    ELSE KeyVal(heap[head].ptr[0])

\* internal::skiplist::SkipList::get_last
SlGetLast ==
    IF len < 1 \/ heap[head].ptr[0] = Null THEN None
    ELSE KeyVal(SlWalkLast(heap[head].ptr[0]))

\* trait front() of internal::skiplist::SkipList: self.get_last()
SlFront(t) ==
    /\ CanInvoke(t, "sl_front")
    /\ SlReturn(t, SlGetLast, heap, mem, len, max_height)

\* trait last() of internal::skiplist::SkipList: self.get_first()
SlLast(t) ==
    /\ CanInvoke(t, "sl_last")
    /\ SlReturn(t, SlGetFirst, heap, mem, len, max_height)

\* sync.rs insert(key, val) on one thread: an equal key swaps the value;
\* otherwise find's predecessors link a node of a generated height at every
\* level of its tower and len grows
SyInsert(t) ==
    /\ CanInvoke(t, "sy_insert")
    /\ LET op == prog[t][opi[t]]
           f == SlFind(op.k)
           h == GenHeight(op.h)
       IN IF f.target # Null
          THEN SlReturn(t, <<op.k, heap[f.target].val>>,
                        [heap EXCEPT ![f.target].val = op.v], mem, len, max_height)
          ELSE \E n \in FreshNode :
                   SlReturn(t, None,
                            SlLinkNodes(n, NewNode(op.k, op.v, h), f.prev),
                            [mem EXCEPT ![n] = "live"],
                            (len + 1) % USIZE_MOD,
                            IF h > max_height THEN h ELSE max_height)

\* sync.rs remove(key) on one thread: set_removed, unlink at every level,
\* retire_node, eager_reclaim (the target is still protected by the hazard
\* pointer of the search; earlier retired nodes are freed), len.fetch_sub
SyRemove(t) ==
    /\ CanInvoke(t, "sy_remove")
    /\ LET f == SlFind(prog[t][opi[t]].k)
       IN IF f.target = Null
          THEN SlReturn(t, None, heap, mem, len, max_height)
          ELSE SlReturn(t, KeyVal(f.target),
                        [SlUnlink(f.target, f.prev) EXCEPT ![f.target].removed = TRUE],
                        [n \in Nodes |->
                            IF n = f.target THEN "retired"
                            ELSE IF mem[n] = "retired" THEN "freed" ELSE mem[n]],
                        (len - 1) % USIZE_MOD, max_height)

\* get_first: `while let Some(next) = protect_ptr(curr.levels[0])`: curr
\* moves to next before its removed flag is looked at
RECURSIVE SyFirstFrom(_)
SyFirstFrom(curr) ==
    LET next == heap[curr].ptr[0]
    IN IF next = Null THEN None
       ELSE IF ~heap[next].removed THEN KeyVal(next)
       ELSE SyFirstFrom(next)

\* sync.rs get_first
SyGetFirst ==
    IF len < 1 \/ heap[head].ptr[0] = Null THEN None
    ELSE SyFirstFrom(heap[head].ptr[0])

\* sync.rs get_last: the node that ends the level 0 chain; the call goes
\* round its loop again while that node is flagged as removed
SyGetLast ==
    IF len < 1 \/ heap[head].ptr[0] = Null THEN None
    ELSE KeyVal(SlWalkLast(heap[head].ptr[0]))

\* get_last comes back: at once on an empty list, otherwise when the node
\* it stopped at is not flagged
SyLastReturns ==
    IF len < 1 \/ heap[head].ptr[0] = Null THEN TRUE
    ELSE ~heap[SlWalkLast(heap[head].ptr[0])].removed

\* get_first() called on the list of sync.rs
SyFirst(t) ==
    /\ CanInvoke(t, "sy_get_first")
    /\ SlReturn(t, SyGetFirst, heap, mem, len, max_height)

\* get_last() called on the list of sync.rs
SyLastCall(t) ==
    /\ CanInvoke(t, "sy_get_last")
    /\ SyLastReturns
    /\ SlReturn(t, SyGetLast, heap, mem, len, max_height)

\* trait front() of the list of sync.rs: self.get_last()
SyFront(t) ==
    /\ CanInvoke(t, "sy_front")
    /\ SyLastReturns
    /\ SlReturn(t, SyGetLast, heap, mem, len, max_height)

\* trait last() of the list of sync.rs: self.get_first()
SyLast(t) ==
    /\ CanInvoke(t, "sy_last")
    /\ SlReturn(t, SyGetFirst, heap, mem, len, max_height)

\* one thread makes up to MaxTraitOps inserts and removes on one of the two
\* lists, the i-th insert with value i, and then asks for an end of the list
TraitKeys == {1, 2, 3}
SlShapes ==
    {[type |-> "insert", k |-> k, h |-> h] : k \in TraitKeys, h \in 1..HEIGHT}
    \cup {[type |-> "sl_remove", k |-> k, h |-> 0] : k \in TraitKeys}
SyShapes ==
    {[type |-> "sy_insert", k |-> k, h |-> h] : k \in TraitKeys, h \in 1..HEIGHT}
    \cup {[type |-> "sy_remove", k |-> k, h |-> 0] : k \in TraitKeys}
SlQueries == {"sl_front", "sl_last"}
SyQueries == {"sy_front", "sy_last", "sy_get_first", "sy_get_last"}
TraitProg(f, n, q) ==
    [i \in 1..(n + 1) |->
        IF i = n + 1 THEN [type |-> q, k |-> 0, v |-> 0, h |-> 0]
        ELSE [type |-> f[i].type, k |-> f[i].k, v |-> i, h |-> f[i].h]]
InitTrait ==
    \E n \in 0..MaxTraitOps :
        \/ \E f \in [1..n -> SlShapes] : \E q \in SlQueries :
               InitWith(TraitProg(f, n, q), <<>>, n + 1)
        \/ \E f \in [1..n -> SyShapes] : \E q \in SyQueries :
               InitWith(TraitProg(f, n, q), <<>>, n + 1)

NextTrait ==
    \E t \in Threads :
        \/ Push(t) \/ SlRemove(t) \/ SlFront(t) \/ SlLast(t)
        \/ SyInsert(t) \/ SyRemove(t) \/ SyFirst(t) \/ SyLastCall(t)
        \/ SyFront(t) \/ SyLast(t)

SpecTrait == InitTrait /\ [][NextTrait]_vars

\* ---------------------------------------------------- gen_height on its own
\* Two threads call gen_height (through insert) with seeds that yield the
\* heights of their programs; only state.max_height is shared.

\* gen_height: the height of the seed, the clamp, max_height.load()
GhLoad(t) ==
    /\ CanInvoke(t, "insert")
    /\ Invoke(t, "gh_store",
              [L0 EXCEPT !.hgt = GenHeight(prog[t][opi[t]].h), !.mh = max_height])

\* gen_height: `if height > max_height.load() { max_height.store(height) }`
GhStore(t) ==
    /\ pc[t] = "gh_store"
    /\ LET l == lv[t]
       IN /\ max_height' = (IF l.hgt > l.mh THEN l.hgt ELSE max_height)
          /\ pc' = [pc EXCEPT ![t] = "idle"]
          /\ lv' = [lv EXCEPT ![t] = L0]
          /\ res' = [res EXCEPT ![t] =
                        Append(@, [kv |-> <<l.hgt, l.mh>>, out |-> <<>>,
                                   won |-> {}, lost |-> {}, pre |-> l.pre])]
          /\ opi' = [opi EXCEPT ![t] = @ + 1]
          /\ UNCHANGED <<heap, mem, len, prog, nsetup, uaf>>

GenProgs ==
    UNION {[1..n -> {OpInsert(1, 0, h) : h \in 1..MaxGenHeight}] : n \in 1..MaxGenCalls}

InitGen == \E p1 \in GenProgs : \E p2 \in GenProgs : InitWith(p1, p2, 0)

NextGen == \E t \in Threads : GhLoad(t) \/ GhStore(t)

SpecGen == InitGen /\ [][NextGen]_vars

\* ------------------------------------------------------------ observations
OpIds == UNION {{<<t, i>> : i \in 1..Len(prog[t])} : t \in Threads}
OpOf(id) == prog[id[1]][id[2]]
Returned(id) == id[2] <= Len(res[id[1]])
ResOf(id) == res[id[1]][id[2]]

\* the operations of the programs that remove an entry of key k, or may
Removers(k) ==
    {id \in OpIds : OpOf(id).type = "pop"
                    \/ (OpOf(id).type = "remove" /\ OpOf(id).k = k)}
Inserters(k) == {id \in OpIds : OpOf(id).type = "insert" /\ OpOf(id).k = k}

\* C1: a get(k) invoked after insert(k, v) returned yields an entry with
\* value v, when the programs hold no remove(k), no pop and no second
\* insert(k, _), whatever the other thread does to other keys.
C1_GetAfterInsert ==
    \A g \in OpIds :
        (Returned(g) /\ OpOf(g).type = "get"
            /\ Removers(OpOf(g).k) = {}
            /\ \E w \in ResOf(g).pre : Inserters(OpOf(g).k) = {w})
        => \A w \in Inserters(OpOf(g).k) :
              ResOf(g).kv = <<OpOf(w).k, OpOf(w).v>>

\* the nodes linked from head along level 0
RECURSIVE Chain(_, _)
Chain(n, fuel) ==
    IF n = Null \/ fuel = 0 THEN {} ELSE {n} \cup Chain(heap[n].ptr[0], fuel - 1)
Reach0 == Chain(heap[head].ptr[0], MaxNodes)
LiveNodes(k) == {n \in Reach0 : heap[n].key = k /\ ~heap[n].removed}

\* C2: when both threads insert key k and nothing removes k, then once every
\* insert(k, _) has returned exactly one node with key k and a clear removed
\* flag is linked at level 0, and a get(k) invoked after that returns Some.
C2_OneLiveNode ==
    \A k \in Keys :
        (Removers(k) = {}
            /\ (\E a \in Inserters(k), b \in Inserters(k) : a[1] # b[1])
            /\ \A w \in Inserters(k) : Returned(w))
        => /\ Cardinality(LiveNodes(k)) = 1
           /\ \A g \in OpIds :
                 (Returned(g) /\ OpOf(g).type = "get" /\ OpOf(g).k = k
                    /\ Inserters(k) \subseteq ResOf(g).pre)
                 => ResOf(g).kv # None

\* remove(k) or pop that returned the pair of a node with key k, every
\* insert(k, _) of the programs having returned before it was invoked
Removed(r, k) ==
    /\ Returned(r)
    /\ OpOf(r).type = "pop" \/ (OpOf(r).type = "remove" /\ OpOf(r).k = k)
    /\ ResOf(r).kv # None
    /\ ResOf(r).kv[1] = k
    /\ Inserters(k) \subseteq ResOf(r).pre

\* C3: once a remove(k) or a pop returned the pair of key k, a get(k) or
\* remove(k) invoked later returns None while no insert(k, _) runs after the
\* removal; and find makes a node its target only while the removed flag of
\* that node is clear.
C3_NoneAfterRemove ==
    /\ [](\A g \in OpIds :
            (Returned(g) /\ OpOf(g).type \in {"get", "remove"}
               /\ \E r \in ResOf(g).pre : Removed(r, OpOf(g).k))
            => ResOf(g).kv = None)
    /\ [][\A t \in Threads :
            (pc[t] = "find_chk" /\ pc'[t] \notin {"find_chk", "trap"}
               /\ lv'[t].target # Null)
            => ~heap[lv'[t].target].removed]_vars

\* a get(k) returned None after a removal of k had returned a pair
C3_Witness ==
    \E g \in OpIds :
        /\ Returned(g) /\ OpOf(g).type = "get" /\ ResOf(g).kv = None
        /\ \E r \in ResOf(g).pre : Removed(r, OpOf(g).k)

\* the pairs operation id has moved out of nodes so far, and those of the
\* nodes on which it lost the removed-flag CAS
Running(id) == ~Returned(id) /\ opi[id[1]] = id[2]
WonBy(id) ==
    IF Returned(id) THEN ResOf(id).won
    ELSE IF Running(id) THEN lv[id[1]].won ELSE {}
LostBy(id) ==
    IF Returned(id) THEN ResOf(id).lost
    ELSE IF Running(id) THEN lv[id[1]].lost ELSE {}

\* C4: the pair of one node is moved out by at most one of the remove, pop
\* and insert calls that target the node; a call that lost the removed-flag
\* CAS on a node was beaten by another call that won it; a remove or pop
\* returns a pair only if it won it; and a get(k) invoked after the removals
\* of k's node returned yields None.
C4_PairOnce ==
    /\ \A a \in OpIds, b \in OpIds : a # b => WonBy(a) \cap WonBy(b) = {}
    /\ \A b \in OpIds : \A p \in LostBy(b) :
          \E a \in OpIds \ {b} : p \in WonBy(a)
    /\ \A r \in OpIds :
          (Returned(r) /\ OpOf(r).type \in {"remove", "pop"})
          => (ResOf(r).kv = None \/ ResOf(r).won = {ResOf(r).kv})
    /\ \A g \in OpIds :
          (Returned(g) /\ OpOf(g).type = "get" /\ Inserters(OpOf(g).k) \subseteq
                {w \in OpIds : w[1] = 1 /\ w[2] <= nsetup}
             /\ \E r \in ResOf(g).pre : ResOf(r).won # {}
                                          /\ \A p \in ResOf(r).won : p[1] = OpOf(g).k)
          => ResOf(g).kv = None

\* two removals raced for one node: one returned its pair, the other lost
\* the removed-flag CAS on it and returned None
C4_Witness ==
    \E a \in OpIds, b \in OpIds :
        /\ a[1] # b[1] /\ Returned(a) /\ Returned(b)
        /\ OpOf(a).type \in {"remove", "pop"}
        /\ OpOf(b).type \in {"remove", "pop"}
        /\ ResOf(a).kv # None /\ ResOf(b).kv = None
        /\ ResOf(a).kv \in ResOf(b).lost

\* C5: no two nodes linked from head along level 0 with a clear removed flag
\* carry the same key.
C5_UniqueLiveKeys ==
    \A k \in Keys : Cardinality(LiveNodes(k)) <= 1

\* both threads have inserted key k, a removal of k has returned a pair, and
\* one node of key k is live
C5_Witness ==
    \E k \in Keys :
        /\ \E a \in Inserters(k), b \in Inserters(k) :
              a[1] = 1 /\ a[2] > nsetup /\ b[1] = 2 /\ Returned(a) /\ Returned(b)
        /\ \E r \in Removers(k) : Returned(r) /\ ResOf(r).kv # None
        /\ Cardinality(LiveNodes(k)) = 1

\* C6: no step of any thread dereferences a node whose memory has been freed.
C6_NoUseAfterFree == ~uaf

\* C7: the keys a completed iter() traversal yielded are strictly increasing.
C7_IterIncreasing ==
    \A it \in OpIds :
        (Returned(it) /\ OpOf(it).type = "iter")
        => \A i \in 1..Len(ResOf(it).out), j \in 1..Len(ResOf(it).out) :
              i < j => ResOf(it).out[i][1] < ResOf(it).out[j][1]

\* C8: an insert that moved the pair out of a node it removed returns that
\* pair.
C8_InsertReturnsEvicted ==
    \A w \in OpIds :
        (Returned(w) /\ OpOf(w).type = "insert")
        => \A p \in ResOf(w).won : ResOf(w).kv = p


\* what a sequential map holds for key k when operation id is invoked: the
\* pair of the last insert(k, _) of the thread before id, None after a
\* remove(k) or when k was never inserted
RECURSIVE LastOn(_, _, _)
LastOn(t, i, k) ==
    IF i = 0 THEN 0
    ELSE IF prog[t][i].type \in {"insert", "remove"} /\ prog[t][i].k = k THEN i
    ELSE LastOn(t, i - 1, k)
Holds(id, k) ==
    LET j == LastOn(id[1], id[2] - 1, k)
    IN IF j = 0 \/ prog[id[1]][j].type = "remove" THEN None
       ELSE <<k, prog[id[1]][j].v>>
JustReturned(id) == opi[id[1]] = id[2] + 1 /\ pc[id[1]] = "idle"

\* C9: single-threaded, insert(k, v2) on a map holding (k, v1) returns
\* (k, v1), leaves exactly one node with key k and a clear removed flag
\* linked, holding v2, and a get(k) that follows returns the entry (k, v2).
C9_InsertReplaces ==
    \A w \in OpIds :
        (Returned(w) /\ OpOf(w).type = "insert" /\ Holds(w, OpOf(w).k) # None)
        => /\ ResOf(w).kv = Holds(w, OpOf(w).k)
           /\ JustReturned(w) =>
                 /\ Cardinality(LiveNodes(OpOf(w).k)) = 1
                 /\ \A n \in LiveNodes(OpOf(w).k) : heap[n].val = OpOf(w).v
           /\ \A g \in OpIds :
                 (g[1] = w[1] /\ g[2] = w[2] + 1 /\ Returned(g)
                    /\ OpOf(g).type = "get" /\ OpOf(g).k = OpOf(w).k)
                 => ResOf(g).kv = <<OpOf(w).k, OpOf(w).v>>

\* an insert replaced the value of its key and the get that follows returned
C9_Witness ==
    \E w \in OpIds, g \in OpIds :
        /\ Returned(w) /\ OpOf(w).type = "insert"
        /\ Holds(w, OpOf(w).k) # None
        /\ ResOf(w).kv # None
        /\ g[1] = w[1] /\ g[2] = w[2] + 1 /\ Returned(g)
        /\ OpOf(g).type = "get" /\ OpOf(g).k = OpOf(w).k

\* C10: single-threaded, iter() after a sequence of inserts and removes
\* yields exactly the pairs the map holds, each once, in ascending key order.
C10_IterExact ==
    \A it \in OpIds :
        (Returned(it) /\ OpOf(it).type = "iter")
        => LET out == ResOf(it).out
               exp == {Holds(it, k) : k \in Keys} \ {None}
           IN /\ {out[i] : i \in 1..Len(out)} = exp
              /\ Len(out) = Cardinality(exp)
              /\ \A i \in 1..Len(out), j \in 1..Len(out) :
                    i < j => out[i][1] < out[j][1]

\* an iteration returned all three keys, inserted in descending key order
C10_Witness ==
    \E it \in OpIds :
        /\ Returned(it) /\ OpOf(it).type = "iter"
        /\ Len(ResOf(it).out) = 3
        /\ prog[1][1].k > prog[1][2].k /\ prog[1][2].k > prog[1][3].k

\* the keys a sequential map holds once the first i - 1 operations of thread
\* t have returned
Present(t, i) == {k \in Keys : Holds(<<t, i>>, k) # None}

\* C11: single-threaded, whenever no call is running len() equals the number
\* of distinct keys present, and is_empty() holds exactly when none is.
C11_LenCountsKeys ==
    pc[1] = "idle"
    => /\ len = Cardinality(Present(1, opi[1]))
       /\ (len < 1) <=> (Present(1, opi[1]) = {})

\* a key was inserted twice and a remove emptied the map again
C11_Witness ==
    /\ pc[1] = "idle" /\ opi[1] = 4 /\ len = 0
    /\ prog[1][1].type = "insert" /\ prog[1][2].type = "insert"
    /\ prog[1][1].k = prog[1][2].k
    /\ prog[1][3].type = "remove" /\ prog[1][3].k = prog[1][1].k
    /\ ResOf(<<1, 3>>).kv # None

\* the pairs a sequential ordered map holds once the first i operations of
\* thread t have returned: insert replaces the pair of its key, remove takes
\* the pair of its key out, pop the pair of the least key
MinKey(m) == CHOOSE p \in m : \A q \in m : p[1] <= q[1]
RECURSIVE RefMap(_, _)
RefMap(t, i) ==
    IF i = 0 THEN {}
    ELSE LET m == RefMap(t, i - 1)
             o == prog[t][i]
         IN IF o.type = "insert"
            THEN {p \in m : p[1] # o.k} \cup {<<o.k, o.v>>}
            ELSE IF o.type = "remove" THEN {p \in m : p[1] # o.k}
            ELSE IF o.type = "pop" /\ m # {} THEN m \ {MinKey(m)}
            ELSE m
LivePairs == {KeyVal(n) : n \in {x \in Reach0 : ~heap[x].removed}}

\* C12: single-threaded, a remove(k) called while no node of key k is live
\* returns None, and none of its steps changes len or the set of live pairs.
C12_RemoveAbsent ==
    /\ [](\A r \in OpIds :
            (Returned(r) /\ OpOf(r).type = "remove"
               /\ ~(\E p \in RefMap(r[1], r[2] - 1) : p[1] = OpOf(r).k))
            => ResOf(r).kv = None)
    /\ [][\A t \in Threads :
            (pc[t] # "idle" /\ prog[t][opi[t]].type = "remove"
               /\ ~(\E p \in RefMap(t, opi[t] - 1) : p[1] = prog[t][opi[t]].k))
            => (len' = len /\ LivePairs' = LivePairs)]_vars

\* a call of thread t is running; it has returned or the thread has crashed
Busy(t) == pc[t] \notin {"idle", "trap", "panic"}

\* C13: under weak fairness for every thread, every call that was invoked
\* returns (or its thread crashes): no call retries its search forever.
C13_CallsReturn ==
    \A t \in Threads : Busy(t) ~> ~Busy(t)

\* every call of the programs has returned
Quiescent == \A t \in Threads : pc[t] = "idle" /\ opi[t] > Len(prog[t])
OnlyInsertRemove == \A id \in OpIds : OpOf(id).type \in {"insert", "remove"}

\* C14: once every call of a workload of inserts and removes has returned,
\* len() equals the number of live nodes linked at level 0.
C14_LenAtRest ==
    (Quiescent /\ OnlyInsertRemove) => len = Cardinality(LivePairs)

\* C15: get_first does not return, and Iter::next does not yield, a node
\* whose removed flag was set when that call began.
C15_NoRemovedYield ==
    \A t \in Threads :
        /\ (pc[t] \in {"ent_set", "it_first"} /\ lv[t].target # Null)
              => KeyVal(lv[t].target) \notin lv[t].rm0
        /\ pc[t] = "it_yield" => KeyVal(lv[t].ent) \notin lv[t].rm0

\* one producer pushing 1, 2, .. in ascending order, one consumer popping
ProducerConsumer ==
    /\ nsetup = 0
    /\ Len(prog[1]) > 0 /\ Len(prog[2]) > 0
    /\ \A i \in 1..Len(prog[1]) : prog[1][i].type = "insert"
            /\ prog[1][i].k = i /\ prog[1][i].v = i
    /\ \A i \in 1..Len(prog[2]) : prog[2][i].type = "pop"

IsSome(r) == r.kv # None
Popped == SelectSeq(res[2], IsSome)

\* C16: with one producer pushing 1..K in ascending order and one consumer
\* popping, no pop panics and the non-empty pop results are 1, 2, .., m in
\* that order.
C16_QueueOrder ==
    ProducerConsumer
    => /\ pc[2] # "panic"
       /\ \A i \in 1..Len(Popped) : Popped[i].kv = <<i, i>>

\* n distinct keys are pushed, then at most n pops run and nothing else
PopsOnly ==
    /\ nsetup > 0 /\ nsetup <= Len(prog[1])
    /\ \A i \in 1..nsetup : prog[1][i].type = "insert"
    /\ \A i, j \in 1..nsetup : i # j => prog[1][i].k # prog[1][j].k
    /\ \A i \in (nsetup + 1)..Len(prog[1]) : prog[1][i].type = "pop"
    /\ \A i \in 1..Len(prog[2]) : prog[2][i].type = "pop"
    /\ (Len(prog[1]) - nsetup) + Len(prog[2]) <= nsetup

\* C17: with n live elements and at most n pops, concurrent or not, and no
\* other operation, every pop returns an element (a pop returns None only
\* when the queue held no live element at some moment of the call).
C17_PopReturns ==
    PopsOnly
    => \A id \in OpIds :
           (Returned(id) /\ OpOf(id).type = "pop") => ResOf(id).kv # None

\* the reference min-heap (BinaryHeap of Reverse values) after the first i
\* calls of thread 1: how many copies of each value it holds
RECURSIVE RefHeap(_)
RefHeap(i) ==
    IF i = 0 THEN [v \in Keys |-> 0]
    ELSE LET b == RefHeap(i - 1)
             op == prog[1][i]
             held == {v \in Keys : b[v] > 0}
         IN IF op.type = "insert" THEN [b EXCEPT ![op.k] = @ + 1]
            ELSE IF held = {} THEN b
            ELSE [b EXCEPT ![CHOOSE v \in held : \A w \in held : v <= w] = @ - 1]

\* what the i-th call, a pop, returns on the reference min-heap
RefPop(i) ==
    LET held == {v \in Keys : RefHeap(i - 1)[v] > 0}
    IN IF held = {} THEN None
       ELSE <<CHOOSE v \in held : \A w \in held : v <= w, 0>>

\* C18: on a single thread, each pop of PriorityQueue::new() returns what
\* the reference min-heap returns for the same pushes and pops, equal
\* values pushed more than once included.
C18_PopsAsMinHeap ==
    \A i \in 1..Len(res[1]) :
        prog[1][i].type = "pop" => res[1][i].kv = RefPop(i)

Dropped == \A t \in Threads : pc[t] = "dropped"

\* C19: once the list is dropped with no call in flight, every node that
\* was ever allocated has been freed or retired.
C19_NoLeak ==
    Dropped => \A n \in Nodes : mem[n] \in {"unalloc", "freed", "retired"}

\* C20: once the tag of levels[l] of a node is set, the (pointer, tag) word
\* of that level never changes again while the node is allocated.
C20_TagFreezes ==
    [][\A n \in Nodes : \A l \in Levels :
          (heap[n].tag[l] = 1 /\ ~(mem[n] # "live" /\ mem'[n] = "live"))
          => (heap'[n].tag[l] = 1 /\ heap'[n].ptr[l] = heap[n].ptr[l])]_vars

\* the nodes linked from head along level l
RECURSIVE ChainAt(_, _, _)
ChainAt(n, l, fuel) ==
    IF n = Null \/ fuel = 0 THEN {}
    ELSE {n} \cup ChainAt(heap[n].ptr[l], l, fuel - 1)
ReachAny == UNION {ChainAt(heap[head].ptr[l], l, MaxNodes) : l \in Levels}

CountNode(t) ==
    CASE pc[t] \in {"unl_len", "unl_retire"} -> lv[t].unode
      [] pc[t] \in {"find_len", "find_retire", "nn_len", "nn_retire"} -> lv[t].next
      [] OTHER -> Null

C23_RemovedUnreachable ==
    \A id \in OpIds :
        (Returned(id) /\ OpOf(id).type = "remove" /\ ResOf(id).kv # None)
        => \A n \in ReachAny : KeyVal(n) # ResOf(id).kv

\* the first node at or after n in level 0 order with a key >= k and an
\* untagged level 0 pointer
RECURSIVE FirstGE(_, _, _)
FirstGE(n, k, fuel) ==
    IF n = Null \/ fuel = 0 THEN Null
    ELSE IF heap[n].key >= k /\ heap[n].tag[0] = 0 THEN n
    ELSE FirstGE(heap[n].ptr[0], k, fuel - 1)

\* every call of the other threads had returned when t invoked its own
AloneSince(t) ==
    \A u \in Threads \ {t} :
        /\ pc[u] = "idle" /\ opi[u] > Len(prog[u])
        /\ \A i \in 1..Len(prog[u]) : <<u, i>> \in lv[t].pre

\* C24: find(key, true) completes, and the target it hands to next_node is
\* the first node in level 0 order with a key >= `key` and an untagged level
\* 0 pointer (None if there is none).
C24_ClosestFinds ==
    \A t \in Threads :
        /\ ~(pc[t] = "panic" /\ lv[t].closest)
        /\ (pc[t] = "nn_found" /\ AloneSince(t))
              => lv[t].target = FirstGE(heap[head].ptr[0], lv[t].key, MaxNodes)

\* thread t is in find(&node.key, true) with the key slot of head as `key`
\* and takes the step that evaluates `(*next).key < *key`
ReadsHeadKey(t) ==
    /\ pc[t] = "find_tag"
    /\ lv[t].closest /\ lv[t].node = head
    /\ heap[lv[t].next].tag[lv[t].level - 1] = 0
    /\ pc'[t] \in {"find_next", "find_end"}

\* C25: no step of any operation reads the key or value slot of the head
\* sentinel.
C25_HeadKeyUnread == [][\A t \in Threads : ~ReadsHeadKey(t)]_vars

\* C26: state.max_height never decreases.
C26_MaxHeightGrows == [][max_height' >= max_height]_vars

\* node n is linked from head at each of its levels
FullyLinked(n) ==
    \A l \in 0..(heap[n].height - 1) : n \in ChainAt(heap[head].ptr[l], l, MaxNodes)

\* C27: the step of insert that increments len is taken only once the new
\* node is linked at all of its levels.
C27_LenAfterLink ==
    [][\A t \in Threads :
          (pc[t] = "ins_len" /\ pc'[t] = "lnk_chk")
          => FullyLinked(lv[t].new_node)]_vars

\* the nodes linked at level 0 whose removed flag is clear
LiveSet == {n \in Reach0 : ~heap[n].removed}

WonByThread(t) == UNION {WonBy(<<t, i>>) : i \in 1..Len(prog[t])}

\* thread t takes the len.fetch_sub(1) step of unlink_level for a node whose
\* removed flag it did not set
HelperCounts(t) ==
    /\ pc[t] \in {"find_len", "nn_len"}
    /\ pc'[t] \in {"find_retire", "nn_retire"}
    /\ len' # len
    /\ KeyVal(lv[t].next) \notin WonByThread(t)

\* C29: a thread that unlinks, through unlink_level, a node whose removed
\* flag it did not set leaves len unchanged.
C29_HelpersKeepLen == [][\A t \in Threads : ~HelperCounts(t)]_vars

\* C30: a tag is set only on a node whose removed flag is set and only by
\* the call that set the flag, and tag_levels in remove and Entry::remove
\* never finds a level already tagged (no "SHOULD NOT BE TAGGED!" panic).
C30_TagNeverFails ==
    /\ [](\A n \in Nodes : \A l \in Levels :
            (mem[n] \in {"live", "retired"} /\ heap[n].tag[l] = 1)
            => heap[n].removed)
    /\ [][\A t \in Threads :
            pc[t] = "tag_levels"
            => /\ pc'[t] # "panic"
               /\ heap' # heap => KeyVal(lv[t].unode) \in lv[t].won]_vars

\* a remove or pop has tagged every level of a node on which the other
\* thread lost the race for the removed flag
C30_Witness ==
    \E t \in Threads : \E u \in Threads \ {t} :
        /\ pc[t] \in {"ent_ret", "unl_load"} /\ lv[t].phase \in {"rem", "pop"}
        /\ lv[t].unode # Null
        /\ \A l \in 0..(heap[lv[t].unode].height - 1) : heap[lv[t].unode].tag[l] = 1
        /\ \E i \in 1..Len(prog[u]) : KeyVal(lv[t].unode) \in LostBy(<<u, i>>)

\* the levels at which node n is linked in the chain that starts at head
LinkedLevels(n) == {l \in Levels : n \in ChainAt(heap[head].ptr[l], l, MaxNodes)}

RECURSIVE SortedFrom(_, _, _)
SortedFrom(n, l, fuel) ==
    IF n = Null THEN TRUE
    ELSE IF fuel = 0 THEN FALSE
    ELSE LET m == heap[n].ptr[l]
         IN /\ (m = Null \/ heap[n].key < heap[m].key)
            /\ SortedFrom(m, l, fuel - 1)

C34_HeadNeverUnlinked ==
    /\ \A t \in Threads :
          /\ pc[t] \in {"tag_levels", "unl_load", "unl_cas", "unl_sub",
                         "unl_len", "unl_retire"} => lv[t].unode # head
          /\ pc[t] \in {"find_cas", "find_sub", "find_len", "find_retire",
                         "nn_cas", "nn_sub", "nn_len", "nn_retire"}
                => lv[t].next # head
          /\ lv[t].target # head
    /\ ~heap[head].removed
    /\ \A l \in Levels : heap[head].tag[l] = 0
    /\ \A n \in Nodes \cup {head} : \A l \in Levels : heap[n].ptr[l] # head

\* remove is unlinking the node that head points at, at level 0, while the
\* other thread is inside insert
C34_Witness ==
    \E t \in Threads : \E u \in Threads \ {t} :
        /\ pc[t] = "unl_cas" /\ lv[t].phase = "rem" /\ lv[t].i = 0
        /\ lv[t].prev[0][1] = head /\ heap[head].ptr[0] = lv[t].unode
        /\ pc[u] # "idle" /\ prog[u][opi[u]].type = "insert"

\* the pairs that some call has moved out of its node with ptr::read
MovedOut == UNION {WonBy(id) : id \in OpIds}

\* C35: the list's Drop passes to Node::drop no node whose pair a remove,
\* a pop or an evicting insert has returned, and no node that was retired.
C35_DropSparesMovedOut ==
    [][(Dropped' /\ ~Dropped)
         => \A n \in DropWalk(heap[head].ptr[0], {}) :
               /\ mem[n] # "retired"
               /\ mem[n] = "live" => KeyVal(n) \notin MovedOut]_vars

\* the pairs the insert calls that returned put into the list
InsertedPairs ==
    {<<OpOf(id).k, OpOf(id).v>> : id \in {x \in OpIds : Returned(x) /\ OpOf(x).type = "insert"}}

\* C36: once into_iter has run to its end on a list at rest, it has yielded
\* exactly the pairs that were inserted and not moved out by a remove, a pop
\* or an eviction, each once and in ascending key order; it has deallocated
\* only nodes that were still allocated and not retired, and has left no
\* node allocated.
C36_IntoIterLive ==
    /\ [](pc[1] = "into_done"
            => LET out == lv[1].out
               IN /\ {out[i] : i \in 1..Len(out)} = InsertedPairs \ MovedOut
                  /\ \A i \in 1..Len(out), j \in 1..Len(out) :
                        i < j => out[i][1] < out[j][1]
                  /\ \A n \in Nodes : mem[n] # "live"
                  /\ ~uaf)
    /\ [][(pc[1] = "into_next" /\ lv[1].raw # Null) => mem[lv[1].raw] = "live"]_vars

\* the keys a list holds after the first i calls of thread t's program
RECURSIVE KeysAfter(_, _)
KeysAfter(t, i) ==
    IF i = 0 THEN {}
    ELSE LET o == prog[t][i]
         IN IF o.type \in {"insert", "sy_insert"} THEN KeysAfter(t, i - 1) \cup {o.k}
            ELSE IF o.type \in {"sl_remove", "sy_remove"} THEN KeysAfter(t, i - 1) \ {o.k}
            ELSE KeysAfter(t, i - 1)
Smallest(ks) == CHOOSE k \in ks : \A j \in ks : k <= j
Largest(ks) == CHOOSE k \in ks : \A j \in ks : k >= j

\* C37: on a non-empty list of either implementation, front() returns the
\* entry of the smallest key and last() the entry of the largest key.
C37_FrontSmallestLastLargest ==
    \A id \in OpIds :
        (Returned(id) /\ KeysAfter(id[1], id[2] - 1) # {})
        => LET ks == KeysAfter(id[1], id[2] - 1)
               kv == ResOf(id).kv
           IN /\ OpOf(id).type \in {"sl_front", "sy_front"}
                    => (kv # None /\ kv[1] = Smallest(ks))
              /\ OpOf(id).type \in {"sl_last", "sy_last"}
                    => (kv # None /\ kv[1] = Largest(ks))

\* C38: get_first() of the list of sync.rs returns the entry of the smallest
\* key the list holds, and on a list of one element get_first() and
\* get_last() both return that element.
C38_EarlyFirst ==
    \A id \in OpIds :
        (Returned(id) /\ KeysAfter(id[1], id[2] - 1) # {})
        => LET ks == KeysAfter(id[1], id[2] - 1)
               kv == ResOf(id).kv
           IN /\ OpOf(id).type = "sy_get_first"
                    => (kv # None /\ kv[1] = Smallest(ks))
              /\ (OpOf(id).type = "sy_get_last" /\ Cardinality(ks) = 1)
                    => (kv # None /\ kv[1] = Smallest(ks))
====
